---------------------------- MODULE Spec2Model ----------------------------
(***************************************************************************)
(* Model of the notebook "Optimization/Session 3.ipynb": the two's         *)
(* complement decoder, the phase encoding followed by the inverse QFT, the *)
(* quadratic-form circuit on the penalized 5-node MaxCut model, the Grover *)
(* oracle built from it, and the Grover Adaptive Search loop the notebook  *)
(* describes.                                                              *)
(*                                                                         *)
(* A register that has only seen Hadamards and Z-rotations is a product    *)
(* state; it is kept as the relative phase of |1> against |0> on each      *)
(* qubit, counted in units of 2*pi/2^n and taken modulo 2^n.               *)
(***************************************************************************)
EXTENDS Integers, Sequences, FiniteSets, TLC

VARIABLES
    pc,                \* position in the cell sequence being run
    num_value_qubits,  \* width of the value register / num_bits of the decoder
    todo,              \* numbers still to be phase-encoded
    encoded,           \* numbers already phase-encoded, in order
    reg,               \* value register before the inverse QFT: phase per qubit
    qbits,             \* value register after the inverse QFT: bit per qubit
    key,               \* measured bit string (the counts key)
    ret,               \* value returned by twos_complement
    circuit,           \* which circuit of the quadratic-form cells is run
    amp,               \* sign of the amplitude of every data state |x>
    x_list,            \* x: the node assignment read from the measured key
    qx,                \* qx: qp_eq.objective.evaluate(x)
    data,              \* data[:2**n] of the Grover circuit's statevector
    state,             \* Grover Adaptive Search: state of the loop
    x_best,            \* Grover Adaptive Search: x', the best input so far
    threshold,         \* Grover Adaptive Search: f(x')
    rounds,            \* Grover Adaptive Search: Grover Searches run
    no_improve,        \* Grover Adaptive Search: consecutive searches without improvement
    accepted,          \* Grover Adaptive Search: thresholds accepted, in order
    missed             \* Grover Adaptive Search: a search returned no better x though one exists

circuitVars == <<pc, num_value_qubits, todo, encoded, reg, qbits, key, ret>>
qfVars == <<circuit, amp, x_list, qx, data>>
gasVars == <<state, x_best, threshold, rounds, no_improve, accepted, missed>>
vars == <<circuitVars, qfVars, gasVars>>

---------------------------------------------------------------------------
\* Bounds of the model.

\* widest register of the phase-encoding circuit
MaxQubits == 8
\* largest magnitude of a number encoded as one of two summands
MaxK == 12
\* widest num_bits handed to the decoder on its own
MaxBits == 5
\* max_rounds: the hard budget of Grover Searches of one run
MaxRounds == 6
\* patience: searches without improvement tolerated before convergence
Patience == 1

---------------------------------------------------------------------------
\* Integer helpers (Python's int operators on non-negative operands).

RECURSIVE Pow2(_)
Pow2(e) == IF e <= 0 THEN 1 ELSE 2 * Pow2(e - 1)

\* 1 << e
Shl1(e) == Pow2(e)

\* a & b for a, b >= 0
RECURSIVE BitAnd(_, _)
BitAnd(a, b) ==
    IF a = 0 \/ b = 0 THEN 0
    ELSE 2 * BitAnd(a \div 2, b \div 2) + (IF a % 2 = 1 /\ b % 2 = 1 THEN 1 ELSE 0)

\* bit i (weight 2^i) of y >= 0
BitOf(y, i) == (y \div Pow2(i)) % 2

\* the characters a bit string is made of
BitChars == {"0", "1"}

\* all bit strings of exactly len characters, as sequences of characters
BitStrings(len) == [1..len -> BitChars]

\* int(s, 2): most significant digit first
RECURSIVE ParseInt2(_)
ParseInt2(s) ==
    IF Len(s) = 0 THEN 0
    ELSE 2 * ParseInt2(SubSeq(s, 1, Len(s) - 1))
           + (IF s[Len(s)] = "1" THEN 1 ELSE 0)

---------------------------------------------------------------------------
\* Building block 1: the decoder.

\* the decoder with the sign test on the wrong bit (bit num_bits)
twos_complement_SignBitOff(val, num_bits) ==
    LET v == ParseInt2(val)
    IN  IF BitAnd(v, Shl1(num_bits)) # 0 THEN v - Shl1(num_bits) ELSE v

\* the decoder subtracting only 2^(num_bits-1)
twos_complement_HalfOffset(val, num_bits) ==
    LET v == ParseInt2(val)
    IN  IF BitAnd(v, Shl1(num_bits - 1)) # 0 THEN v - Shl1(num_bits - 1) ELSE v

\* the decoder subtracting 2^(num_bits+1)
twos_complement_WideOffset(val, num_bits) ==
    LET v == ParseInt2(val)
    IN  IF BitAnd(v, Shl1(num_bits - 1)) # 0 THEN v - Shl1(num_bits + 1) ELSE v

\* def twos_complement(val, num_bits)
twos_complement(val, num_bits) ==
    LET v == ParseInt2(val)
    IN  IF BitAnd(v, Shl1(num_bits - 1)) # 0 THEN v - Shl1(num_bits) ELSE v

---------------------------------------------------------------------------
\* Building block 2: phase encoding and the inverse QFT.

\* qc.h(range(n)): every qubit in |+>, relative phase 0
Hadamards(n) == [j \in 0..(n - 1) |-> 0]

\* a rotation that replaces the phase already on the qubit
Rz_Overwrite(r, j, units, n) == [r EXCEPT ![j] = units % Pow2(n)]

\* qc.rz(theta, j) with theta = units * 2*pi/2^n
Rz(r, j, units, n) == [r EXCEPT ![j] = (r[j] + units) % Pow2(n)]

\* the rotation angle with the qubit weight doubled
EncodeAngle_Doubled(j, k) == Pow2(j + 1) * k

\* theta = 2*pi * 2**j / 2**num_qubits * k, in units of 2*pi/2^num_qubits
EncodeAngle(j, k) == Pow2(j) * k

\* encode(num_qubits, k) appended to the register: rz(theta_j, j) for every j
RECURSIVE EncodeFrom(_, _, _, _)
EncodeFrom(r, j, n, k) ==
    IF j >= n THEN r
    ELSE EncodeFrom(Rz(r, j, EncodeAngle(j, k), n), j + 1, n, k)

encode(r, num_qubits, k) == EncodeFrom(r, 0, num_qubits, k)

\* the values y whose Fourier state U_y|+> the register is in
FourierValues(r, n) ==
    {y \in 0..(Pow2(n) - 1) : \A j \in 0..(n - 1) : r[j] = (Pow2(j) * y) % Pow2(n)}

\* what measuring after the inverse QFT can show: the encoded value when the
\* register is a Fourier state, any value when it is not
MeasurableValues(r, n) ==
    IF FourierValues(r, n) # {} THEN FourierValues(r, n) ELSE 0..(Pow2(n) - 1)

\* QFT(n, do_swaps=False).inverse() leaving value y: without the swaps
\* qubit j carries bit n-1-j of y
InverseQFTBits(y, n) == [j \in 0..(n - 1) |-> BitOf(y, n - 1 - j)]

\* the measurement without the reversal of the classical bits
MeasureKey_NoReverse(q, n) ==
    [p \in 1..n |-> IF q[n - p] = 1 THEN "1" ELSE "0"]

\* qc.measure(qregs[0], cregs[0][::-1]): qubit i goes to classical bit n-1-i;
\* the counts key shows classical bit n-1 first
MeasureKey(q, n) ==
    LET cbit == [c \in 0..(n - 1) |-> q[n - 1 - c]]
    IN  [p \in 1..n |-> IF cbit[n - p] = 1 THEN "1" ELSE "0"]

---------------------------------------------------------------------------
\* Placeholders for the parts of the state a cell does not use.

NoReg == << >>
NoKey == << >>
NoRet == "none"

\* the quadratic-form cells have not been run
QfIdle ==
    /\ circuit = "none"
    /\ amp = << >>
    /\ x_list = << >>
    /\ qx = NoRet
    /\ data = << >>

\* the adaptive search has not been started
GasIdle ==
    /\ state = "none"
    /\ x_best = NoRet
    /\ threshold = NoRet
    /\ rounds = 0
    /\ no_improve = 0
    /\ accepted = << >>
    /\ missed = FALSE

---------------------------------------------------------------------------
\* The decoder called on its own (cell "print(twos_complement('0000', 4))").

InitDecode ==
    /\ pc = "measured"
    /\ num_value_qubits \in 1..MaxBits
    /\ \E len \in 1..(MaxBits + 1) : key \in BitStrings(len)
    /\ todo = << >>
    /\ encoded = << >>
    /\ reg = NoReg
    /\ qbits = NoReg
    /\ ret = NoRet
    /\ QfIdle
    /\ GasIdle

\* print(key, ' -->', twos_complement(key, num_value_qubits))
Decode ==
    /\ pc = "measured"
    /\ ret' = twos_complement(key, num_value_qubits)
    /\ pc' = "done"
    /\ UNCHANGED <<num_value_qubits, todo, encoded, reg, qbits, key>>
    /\ UNCHANGED <<qfVars, gasVars>>

NextDecode == Decode

SpecDecode == InitDecode /\ [][NextDecode]_vars

---------------------------------------------------------------------------
\* The phase-encoding circuits (cells "number_to_encode = 10" and "2 + 10").

\* the numbers a circuit may be asked to encode: one number from twice the
\* representable range, or two summands
Inputs(n) ==
    {<<k>> : k \in (-Pow2(n))..Pow2(n)}
        \cup {<<k1, k2>> : k1 \in (-MaxK)..MaxK, k2 \in (-MaxK)..MaxK}

InitPhase ==
    /\ pc = "new"
    /\ num_value_qubits \in 1..MaxQubits
    /\ todo \in Inputs(num_value_qubits)
    /\ encoded = << >>
    /\ reg = NoReg
    /\ qbits = NoReg
    /\ key = NoKey
    /\ ret = NoRet
    /\ QfIdle
    /\ GasIdle

\* qc = QuantumCircuit(n, n); qc.h(range(n))
Hadamard ==
    /\ pc = "new"
    /\ reg' = Hadamards(num_value_qubits)
    /\ pc' = "plus"
    /\ UNCHANGED <<num_value_qubits, todo, encoded, qbits, key, ret>>
    /\ UNCHANGED <<qfVars, gasVars>>

\* qc.append(encode(num_value_qubits, k), range(num_value_qubits))
Encode ==
    /\ pc = "plus"
    /\ todo # << >>
    /\ reg' = encode(reg, num_value_qubits, Head(todo))
    /\ encoded' = Append(encoded, Head(todo))
    /\ todo' = Tail(todo)
    /\ UNCHANGED <<pc, num_value_qubits, qbits, key, ret>>
    /\ UNCHANGED <<qfVars, gasVars>>

\* qc.append(QFT(n, do_swaps=False).inverse(), qc.qubits)
InverseQFT ==
    /\ pc = "plus"
    /\ todo = << >>
    /\ \E y \in MeasurableValues(reg, num_value_qubits) :
           qbits' = InverseQFTBits(y, num_value_qubits)
    /\ pc' = "basis"
    /\ UNCHANGED <<num_value_qubits, todo, encoded, reg, key, ret>>
    /\ UNCHANGED <<qfVars, gasVars>>

\* qc.measure(...); counts = execute(qc, ...).result().get_counts()
Measure ==
    /\ pc = "basis"
    /\ key' = MeasureKey(qbits, num_value_qubits)
    /\ pc' = "measured"
    /\ UNCHANGED <<num_value_qubits, todo, encoded, reg, qbits, ret>>
    /\ UNCHANGED <<qfVars, gasVars>>

NextPhase == Hadamard \/ Encode \/ InverseQFT \/ Measure \/ Decode

SpecPhase == InitPhase /\ [][NextPhase]_vars

---------------------------------------------------------------------------
\* The MaxCut model and its penalized objective qp_eq.

\* n = 5
NumNodes == 5

Nodes == 0..(NumNodes - 1)

\* edges = [(0, 1, 1.0), (0, 2, 1.0), ...]: (i, j, weight)
Edges ==
    {<<0, 1, 1>>, <<0, 2, 1>>, <<0, 3, 1>>, <<1, 2, 1>>,
     <<2, 3, 1>>, <<2, 4, 1>>, <<3, 4, 1>>}

\* mdl.maximize(objective): the sense of a maximization is -1
Sense == -1

\* b = 2; mdl.add_constraint(mdl.sum(x) == b)
CardinalityRhs == 2

\* LinearEqualityToPenalty(penalty=1)
Penalty == 1

\* the value width one bit short
NumResultQubits_Four == 5 - 1

\* num_value_qubits = 5
NumResultQubits == 5

\* the data basis states |x>, x = sum of x_i 2^i
DataStates == 0..(Pow2(NumNodes) - 1)

\* the node assignment [x_0, ..., x_4] of the data state x
XList(x) == [i \in Nodes |-> BitOf(x, i)]

RECURSIVE SumFn(_, _)
SumFn(fn, S) ==
    IF S = {} THEN 0
    ELSE LET e == CHOOSE e \in S : TRUE IN fn[e] + SumFn(fn, S \ {e})

\* w of the edge between i and j, 0 when there is none
EdgeWeight(i, j) ==
    LET es == {e \in Edges : (e[1] = i /\ e[2] = j) \/ (e[1] = j /\ e[2] = i)}
    IN  IF es = {} THEN 0 ELSE (CHOOSE e \in es : TRUE)[3]

\* objective = sum(w * (x[i] + x[j] - 2*x[i]*x[j])) minus the penalty
\* (sum(x) - b)^2 of the equality constraint, written as x^T A x + b^T x + c;
\* A = qp_eq.objective.quadratic.to_array() is upper triangular
QuadraticA(i, j) ==
    IF i = j THEN Sense * Penalty
    ELSE IF i < j THEN -2 * EdgeWeight(i, j) + 2 * Sense * Penalty
    ELSE 0

\* b = qp_eq.objective.linear.to_array()
LinearB(i) ==
    SumFn([j \in Nodes |-> EdgeWeight(i, j)], Nodes)
        - 2 * Sense * Penalty * CardinalityRhs

\* c = qp_eq.objective.constant
ConstantC == Sense * Penalty * CardinalityRhs * CardinalityRhs

\* qp_eq.objective.evaluate(x) for x a list of node values
Q(xl) ==
    SumFn([i \in Nodes |->
              SumFn([j \in Nodes |-> QuadraticA(i, j) * xl[i] * xl[j]], Nodes)],
          Nodes)
        + SumFn([i \in Nodes |-> LinearB(i) * xl[i]], Nodes)
        + ConstantC

---------------------------------------------------------------------------
\* Building block 3: qf = QuadraticForm(num_value_qubits, A, b, c).
\* The circuit phase-encodes every term of Q(x) into the value register,
\* each rotation controlled on the data qubits of the term, then applies
\* the inverse QFT.  A term is [value, ctrl].

LinearTerms ==
    [p \in 1..NumNodes |->
        [value |-> LinearB(p - 1) + QuadraticA(p - 1, p - 1), ctrl |-> {p - 1}]]

RECURSIVE QuadTerms(_, _)
QuadTerms(j, k) ==
    IF j >= NumNodes - 1 THEN << >>
    ELSE IF k >= NumNodes THEN QuadTerms(j + 1, j + 2)
    ELSE <<[value |-> QuadraticA(j, k) + QuadraticA(k, j), ctrl |-> {j, k}]>>
             \o QuadTerms(j, k + 1)

IsNonZero(t) == t.value # 0

\* the rotations of qf, in order: constant, linear, quadratic
QFTerms ==
    SelectSeq(<<[value |-> ConstantC, ctrl |-> {}]>> \o LinearTerms \o QuadTerms(0, 1),
              IsNonZero)

RECURSIVE ReverseNegated(_)
\* qf.inverse(): the rotations in reverse order with the angles negated
ReverseNegated(ts) ==
    IF ts = << >> THEN << >>
    ELSE Append(ReverseNegated(Tail(ts)),
                [value |-> -Head(ts).value, ctrl |-> Head(ts).ctrl])

\* one controlled rotation block on the branch with data state x
ApplyTerm(r, x, t, m) ==
    IF \A i \in t.ctrl : BitOf(x, i) = 1 THEN encode(r, m, t.value) ELSE r

\* the value a Fourier state of the value register stands for
ValueOf(r, m) == CHOOSE y \in MeasurableValues(r, m) : TRUE

\* the value register after qf: QuadraticForm applies its rotations to the
\* reversed register, so result qubit i ends with bit i of the value
ResultBits(r, m) ==
    LET q == InverseQFTBits(ValueOf(r, m), m)
    IN  [i \in 0..(m - 1) |-> q[m - 1 - i]]

\* the value held by a value register in a basis state
RECURSIVE BitsValue(_, _)
BitsValue(q, i) == IF i < 0 THEN 0 ELSE q[i] * Pow2(i) + BitsValue(q, i - 1)

\* the Fourier state the QFT at the start of qf.inverse() makes of the
\* value register
QFTPhases(q, m) ==
    LET y == BitsValue(q, m - 1)
    IN  [j \in 0..(m - 1) |-> (Pow2(j) * y) % Pow2(m)]

\* the Hadamards closing qf.inverse(): phase 0 gives |0>, phase pi gives |1>
UnHadamardBits(r, m) == [i \in 0..(m - 1) |-> IF r[m - 1 - i] = 0 THEN 0 ELSE 1]

\* the oracle's Z on the least significant value qubit
OracleQubit_First(m) == 0

\* qc.z(qc.qubits[-1]): the last qubit is the top value qubit
OracleQubit(m) == m - 1

\* qc.measure_all(): the key shows qubit n+m-1 first and qubit 0 last;
\* qubits 0..n-1 are the data, n..n+m-1 the value register
KeyAll(x, q, m) ==
    [p \in 1..(NumNodes + m) |->
        LET qubit == NumNodes + m - p
            bit == IF qubit < NumNodes THEN BitOf(x, qubit) ELSE q[qubit - NumNodes]
        IN  IF bit = 1 THEN "1" ELSE "0"]

InitQF ==
    /\ pc = "new"
    /\ circuit \in {"eval", "grover"}
    /\ num_value_qubits = NumResultQubits
    /\ todo = QFTerms
    /\ encoded = << >>
    /\ reg = NoReg
    /\ qbits = NoReg
    /\ key = NoKey
    /\ ret = NoRet
    /\ amp = << >>
    /\ x_list = << >>
    /\ qx = NoRet
    /\ data = << >>
    /\ GasIdle

\* qc.h(range(n)): the uniform superposition of the 2^n data states
DataHadamard ==
    /\ pc = "new"
    /\ amp' = [x \in DataStates |-> 1]
    /\ pc' = "data"
    /\ UNCHANGED <<num_value_qubits, todo, encoded, reg, qbits, key, ret>>
    /\ UNCHANGED <<circuit, x_list, qx, data, gasVars>>

\* qc.append(qf, ...): qf opens with Hadamards on the value register
QFHadamard ==
    /\ pc = "data"
    /\ reg' = [x \in DataStates |-> Hadamards(num_value_qubits)]
    /\ pc' = "plus"
    /\ UNCHANGED <<num_value_qubits, todo, encoded, qbits, key, ret>>
    /\ UNCHANGED <<qfVars, gasVars>>

\* the next rotation block of qf (or of qf.inverse())
QFTerm ==
    /\ pc \in {"plus", "unplus"}
    /\ todo # << >>
    /\ reg' = [x \in DataStates |-> ApplyTerm(reg[x], x, Head(todo), num_value_qubits)]
    /\ encoded' = Append(encoded, Head(todo))
    /\ todo' = Tail(todo)
    /\ UNCHANGED <<pc, num_value_qubits, qbits, key, ret>>
    /\ UNCHANGED <<qfVars, gasVars>>

\* the inverse QFT closing qf: the value register holds Q(x) mod 2^m
QFInverseQFT ==
    /\ pc = "plus"
    /\ todo = << >>
    /\ qbits' = [x \in DataStates |-> ResultBits(reg[x], num_value_qubits)]
    /\ pc' = "value"
    /\ UNCHANGED <<num_value_qubits, todo, encoded, reg, key, ret>>
    /\ UNCHANGED <<qfVars, gasVars>>

\* qc.measure_all(); counts = execute(qc, ...).result().get_counts():
\* any data state of nonzero amplitude may be the one measured
MeasureAll ==
    /\ pc = "value"
    /\ circuit = "eval"
    /\ \E x \in DataStates :
           /\ amp[x] # 0
           /\ key' = KeyAll(x, qbits[x], num_value_qubits)
    /\ pc' = "measured_all"
    /\ UNCHANGED <<num_value_qubits, todo, encoded, reg, qbits, ret>>
    /\ UNCHANGED <<qfVars, gasVars>>

\* x_ = key[num_value_qubits:]; x = [...][::-1]; y_bin = key[:num_value_qubits];
\* y_int = twos_complement(y_bin, num_value_qubits); qx = qp_eq.objective.evaluate(x)
ReadCounts ==
    /\ pc = "measured_all"
    /\ LET x_ == SubSeq(key, num_value_qubits + 1, Len(key))
           x == [i \in Nodes |-> IF x_[Len(x_) - i] = "0" THEN 0 ELSE 1]
           y_bin == SubSeq(key, 1, num_value_qubits)
       IN  /\ x_list' = x
           /\ ret' = twos_complement(y_bin, num_value_qubits)
           /\ qx' = Q(x)
    /\ pc' = "printed"
    /\ UNCHANGED <<num_value_qubits, todo, encoded, reg, qbits, key>>
    /\ UNCHANGED <<circuit, amp, data, gasVars>>

\* U_f step 2: qc.z(qc.qubits[-1])
OracleZ ==
    /\ pc = "value"
    /\ circuit = "grover"
    /\ amp' = [x \in DataStates |->
                  IF qbits[x][OracleQubit(num_value_qubits)] = 1 THEN -amp[x] ELSE amp[x]]
    /\ pc' = "marked"
    /\ UNCHANGED <<num_value_qubits, todo, encoded, reg, qbits, key, ret>>
    /\ UNCHANGED <<circuit, x_list, qx, data, gasVars>>

\* U_f step 3: qc.append(qf.inverse(), ...) opens with the QFT
QFInverseStart ==
    /\ pc = "marked"
    /\ reg' = [x \in DataStates |-> QFTPhases(qbits[x], num_value_qubits)]
    /\ todo' = ReverseNegated(encoded)
    /\ encoded' = << >>
    /\ pc' = "unplus"
    /\ UNCHANGED <<num_value_qubits, qbits, key, ret>>
    /\ UNCHANGED <<qfVars, gasVars>>

\* qf.inverse() closes with the Hadamards on the value register
QFUnHadamard ==
    /\ pc = "unplus"
    /\ todo = << >>
    /\ qbits' = [x \in DataStates |-> UnHadamardBits(reg[x], num_value_qubits)]
    /\ pc' = "uncomputed"
    /\ UNCHANGED <<num_value_qubits, todo, encoded, reg, key, ret>>
    /\ UNCHANGED <<qfVars, gasVars>>

\* data = Statevector.from_instruction(qc_grover).data; data[:2**n] are the
\* amplitudes of the states whose value register is |0...0>
Statevector ==
    /\ pc = "uncomputed"
    /\ data' = [x \in DataStates |->
                   IF BitsValue(qbits[x], num_value_qubits - 1) = 0 THEN amp[x] ELSE 0]
    /\ pc' = "statevector"
    /\ UNCHANGED <<num_value_qubits, todo, encoded, reg, qbits, key, ret>>
    /\ UNCHANGED <<circuit, amp, x_list, qx, gasVars>>

NextQF ==
    \/ DataHadamard
    \/ QFHadamard
    \/ QFTerm
    \/ QFInverseQFT
    \/ MeasureAll
    \/ ReadCounts
    \/ OracleZ
    \/ QFInverseStart
    \/ QFUnHadamard
    \/ Statevector

SpecQF == InitQF /\ [][NextQF]_vars

---------------------------------------------------------------------------
\* Grover Adaptive Search on the notebook's model:
\*   1. Run Grover Search to find an x with f(x) < f(x').
\*   2. Set x' = x and repeat until no further improvement is made.
\* A Grover Search ends in a measurement, which may show any data state.

\* the function the search minimizes: the maximized objective with its
\* sign turned
FTable == [x \in DataStates |-> Sense * Q(XList(x))]

\* f(x), looked up
f(x) == FTable[x]

\* the comparison letting an equal value through
Improves_OrEqual(x, thr) == f(x) <= thr

\* the comparison of a maximization left uninverted
Improves_Greater(x, thr) == f(x) > thr

\* the oracle's predicate U_f(x'): f(x) < f(x')
Improves(x, thr) == f(x) < thr

\* the states the oracle marks at threshold thr
Marked(thr) == {x \in DataStates : Improves(x, thr)}

\* "until no further improvement is made": more than Patience searches
\* in a row improved nothing
NoFurtherImprovement(ni) == ni > Patience

\* the budget check letting one search too many through
BudgetExceeded_Late(r) == r > MaxRounds

\* the budget check made between rounds
BudgetExceeded(r) == r >= MaxRounds

Terminal == {"CONVERGED", "EXHAUSTED"}

InitGAS ==
    /\ pc = "none"
    /\ num_value_qubits = NumResultQubits
    /\ todo = << >>
    /\ encoded = << >>
    /\ reg = NoReg
    /\ qbits = NoReg
    /\ key = NoKey
    /\ ret = NoRet
    /\ QfIdle
    /\ state = "INIT"
    /\ x_best = NoRet
    /\ threshold = NoRet
    /\ rounds = 0
    /\ no_improve = 0
    /\ accepted = << >>
    /\ missed = FALSE

\* INIT: an input x' is taken and the threshold set to f(x')
Start ==
    /\ state = "INIT"
    /\ \E x \in DataStates :
           /\ x_best' = x
           /\ threshold' = f(x)
           /\ accepted' = <<f(x)>>
    /\ state' = "SEARCHING"
    /\ UNCHANGED <<rounds, no_improve, missed>>
    /\ UNCHANGED <<circuitVars, qfVars>>

\* one Grover Search and its measurement x: with f(x) < f(x') set x' = x,
\* otherwise count a search without improvement
Round ==
    /\ state = "SEARCHING"
    /\ ~BudgetExceeded(rounds)
    /\ rounds' = rounds + 1
    /\ \E x \in DataStates :
           IF Improves(x, threshold)
           THEN /\ x_best' = x
                /\ threshold' = f(x)
                /\ accepted' = Append(accepted, f(x))
                /\ no_improve' = 0
                /\ state' = "IMPROVED"
                /\ UNCHANGED missed
           ELSE /\ no_improve' = no_improve + 1
                /\ state' = IF NoFurtherImprovement(no_improve + 1)
                            THEN "CONVERGED" ELSE "SEARCHING"
                /\ missed' = (missed \/ Marked(threshold) # {})
                /\ UNCHANGED <<x_best, threshold, accepted>>
    /\ UNCHANGED <<circuitVars, qfVars>>

\* "... and repeat": the next search runs against the new threshold
Repeat ==
    /\ state = "IMPROVED"
    /\ state' = "SEARCHING"
    /\ UNCHANGED <<x_best, threshold, rounds, no_improve, accepted, missed>>
    /\ UNCHANGED <<circuitVars, qfVars>>

\* the budget is used up before the search converged
Exhaust ==
    /\ state = "SEARCHING"
    /\ BudgetExceeded(rounds)
    /\ state' = "EXHAUSTED"
    /\ UNCHANGED <<x_best, threshold, rounds, no_improve, accepted, missed>>
    /\ UNCHANGED <<circuitVars, qfVars>>

NextGAS == Start \/ Round \/ Repeat \/ Exhaust

SpecGAS == InitGAS /\ [][NextGAS]_vars

\* the loop is sequential and keeps running while a step is possible
FairSpecGAS == SpecGAS /\ WF_vars(NextGAS)

---------------------------------------------------------------------------
\* Every call of twos_complement in the notebook: the decoder on its own,
\* the keys of the phase-encoding circuits, and the y_bin slices of the
\* quadratic-form circuit's keys.

InitCalls == InitDecode \/ InitPhase \/ InitQF

NextCalls ==
    \/ circuit = "none" /\ NextPhase
    \/ circuit # "none" /\ NextQF

SpecCalls == InitCalls /\ [][NextCalls]_vars

---------------------------------------------------------------------------
\* Vocabulary of the properties.

\* the signed range of a width-w two's complement number
InRange(v, w) == -Pow2(w - 1) <= v /\ v <= Pow2(w - 1) - 1

\* the unsigned value of a bit string, digit by digit with its weight
RECURSIVE WeightedSum(_, _)
WeightedSum(b, p) ==
    IF p > Len(b) THEN 0
    ELSE (IF b[p] = "1" THEN Pow2(Len(b) - p) ELSE 0) + WeightedSum(b, p + 1)

Unsigned(b) == WeightedSum(b, 1)

\* the w-character pattern of u, most significant bit first
Pattern(u, w) == [p \in 1..w |-> IF BitOf(u, w - p) = 1 THEN "1" ELSE "0"]

\* the representative of s modulo 2^w inside the signed range
Balanced(s, w) ==
    CHOOSE r \in (-Pow2(w - 1))..(Pow2(w - 1) - 1) : (r - s) % Pow2(w) = 0

RECURSIVE SumSeq(_)
SumSeq(ks) == IF ks = << >> THEN 0 ELSE Head(ks) + SumSeq(Tail(ks))

RECURSIVE EncodeAll(_, _, _)
EncodeAll(r, n, ks) ==
    IF ks = << >> THEN r ELSE EncodeAll(encode(r, n, Head(ks)), n, Tail(ks))

\* every key the circuit that encodes ks, in that order, can show
KeysOf(n, ks) ==
    {MeasureKey(InverseQFTBits(y, n), n) :
        y \in MeasurableValues(EncodeAll(Hadamards(n), n, ks), n)}

---------------------------------------------------------------------------
\* C1: called with a string of exactly num_bits characters, twos_complement
\* returns the unsigned value of the string minus 2^num_bits when the first
\* (most significant) character is 1 and the unsigned value otherwise, and
\* the call changes nothing but its return value.
C1_ReturnValue ==
    (pc = "done" /\ Len(key) = num_value_qubits) =>
        ret = IF key[1] = "1" THEN Unsigned(key) - Pow2(num_value_qubits)
              ELSE Unsigned(key)

C1_TwosComplement ==
    /\ [](C1_ReturnValue)
    /\ [][(pc = "measured" /\ pc' = "done") =>
            UNCHANGED <<num_value_qubits, todo, encoded, reg, qbits, key,
                        qfVars, gasVars>>]_vars

C1_Witness ==
    /\ pc = "done"
    /\ num_value_qubits = 4
    /\ key = <<"1", "0", "1", "0">>
    /\ ret = -6

\* C3: at every width the all-zero string decodes to 0, the string with
\* only the top bit set to -2^(w-1), and the all-ones string to -1.
C3_Boundaries ==
    (pc = "done" /\ Len(key) = num_value_qubits) =>
        LET w == num_value_qubits
        IN  /\ (\A p \in 1..w : key[p] = "0") => ret = 0
            /\ (key[1] = "1" /\ \A p \in 2..w : key[p] = "0") => ret = -Pow2(w - 1)
            /\ (\A p \in 1..w : key[p] = "1") => ret = -1

C3_Witness ==
    /\ pc = "done"
    /\ num_value_qubits = 4
    /\ key = <<"1", "0", "0", "0">>
    /\ ret = -8

\* C2: the circuit that encodes one value v of the signed range of width w
\* shows a key that decodes to v, and that key is the one w-character
\* string decoding to v: decoding is a bijection between the w-character
\* strings and the signed range, with encoding as its inverse.
C2_RoundTrip ==
    (pc = "done" /\ Len(encoded) = 1) =>
        LET w == num_value_qubits
            v == encoded[1]
        IN  /\ InRange(v, w) => ret = v
            /\ \A b \in BitStrings(w) : twos_complement(b, w) = v => key = b
            /\ InRange(v, w) => \E b \in BitStrings(w) : twos_complement(b, w) = v

C2_Witness ==
    /\ pc = "done"
    /\ num_value_qubits = 4
    /\ encoded = <<-6>>
    /\ key = <<"1", "0", "1", "0">>
    /\ ret = -6

\* C4 as stated: encode refuses a value outside the signed range of the
\* width, so no out-of-range value is ever encoded into the register.
C4_RangeError ==
    \A i \in DOMAIN encoded : InRange(encoded[i], num_value_qubits)

\* C4 as amended: encode never fails; a value outside the signed range is
\* encoded as the pattern of value mod 2^width, and the key decodes to the
\* wrapped number, which differs from the value by a multiple of 2^width.
C4_Wraps ==
    (pc = "done" /\ Len(encoded) = 1 /\ ~InRange(encoded[1], num_value_qubits)) =>
        LET w == num_value_qubits
            v == encoded[1]
        IN  /\ key = Pattern(v % Pow2(w), w)
            /\ ret # v
            /\ InRange(ret, w)
            /\ (ret - v) % Pow2(w) = 0

C4_Witness ==
    /\ pc = "done"
    /\ num_value_qubits = 4
    /\ encoded = <<10>>
    /\ ret = -6

\* C8: encoding k1 and then k2 and applying the inverse QFT leaves the
\* pattern of (k1 + k2) mod 2^n; the key decodes to the one number of the
\* signed range congruent to k1 + k2, and encoding in the other order
\* shows the same key.  Encoding a single number k leaves k mod 2^n.
C8_AdditionMod ==
    (pc = "done" /\ encoded # << >>) =>
        LET n == num_value_qubits
            s == SumSeq(encoded)
        IN  /\ key = Pattern(s % Pow2(n), n)
            /\ ret = Balanced(s, n)
            /\ Len(encoded) = 2 => KeysOf(n, <<encoded[2], encoded[1]>>) = {key}

C8_Witness ==
    /\ pc = "done"
    /\ num_value_qubits = 4
    /\ encoded = <<2, 10>>
    /\ key = <<"1", "1", "0", "0">>
    /\ ret = -4

\* C9: with five value qubits every one of the 32 assignments reads back
\* exactly: the decoded value register y_int equals Q(x), which lies in
\* [-16, 15], so nothing wraps.
C9_WidthSufficient ==
    (pc = "printed") =>
        /\ ret = qx
        /\ qx = Q(x_list)
        /\ InRange(qx, NumResultQubits)

C9_Witness ==
    /\ pc = "printed"
    /\ x_list = [i \in Nodes |-> 1]
    /\ qx = -9
    /\ ret = -9

\* C10: after U_f (compute Q(x), Z on the top value qubit, uncompute) the
\* amplitude of |x> has changed sign exactly when Q(x) < 0, for every one
\* of the 32 assignments, and the value register is back to zero.
C10_OracleMarks ==
    (pc = "statevector") =>
        \A x \in DataStates :
            /\ data[x] \in {1, -1}
            /\ data[x] = -1 <=> Q(XList(x)) < 0

C10_Witness ==
    /\ pc = "statevector"
    /\ data[0] = -1
    /\ data[10] = 1
    /\ Q(XList(10)) = 5

\* the value exhaustive search over the 32 assignments finds
ExhaustiveOptimum ==
    CHOOSE v \in {f(x) : x \in DataStates} : \A x \in DataStates : v <= f(x)

StrictlyDecreasing(seq) == \A i \in 1..(Len(seq) - 1) : seq[i + 1] < seq[i]

\* C5: x' and the threshold f(x') are replaced only by a sampled x with
\* f(x) strictly below the current threshold, so the accepted thresholds
\* form a strictly decreasing sequence and the threshold never rises.
C5_Accepted ==
    /\ StrictlyDecreasing(accepted)
    /\ state \in {"SEARCHING", "IMPROVED", "CONVERGED", "EXHAUSTED"} =>
           /\ threshold = f(x_best)
           /\ threshold = accepted[Len(accepted)]

C6_Terminates ==
    /\ <>(state \in Terminal)
    /\ [](rounds <= MaxRounds)
    /\ [][(state \in Terminal) => UNCHANGED gasVars]_vars

C6_Witness ==
    /\ state = "EXHAUSTED"
    /\ rounds = MaxRounds
    /\ Len(accepted) >= 2

C11_RangeInvariant ==
    /\ (pc = "done" /\ Len(key) <= num_value_qubits) =>
           InRange(ret, num_value_qubits)
    /\ (pc = "done" /\ Len(key) > num_value_qubits /\ key[1] = "1") =>
           ~InRange(ret, num_value_qubits)
    /\ (pc \in {"measured", "done"} /\ encoded # << >>) =>
           Len(key) = num_value_qubits
    /\ (pc \in {"measured_all", "printed"}) =>
           /\ Len(key) >= num_value_qubits
           /\ Len(SubSeq(key, 1, num_value_qubits)) = num_value_qubits
    /\ (pc = "printed") => InRange(ret, num_value_qubits)

C11_Witness ==
    /\ pc = "done"
    /\ num_value_qubits = 4
    /\ key = <<"1", "1", "1">>
    /\ ret = 7

===========================================================================
